---- MODULE Spec2Model ----
(***************************************************************************)
(* Model of cf_footprint.py: the footprint estimator that shells out to    *)
(* the cf command-line client, parses its tables and prints one report     *)
(* line per space plus a TOTAL line.                                       *)
(*                                                                         *)
(* Text is modelled as Python models it: a str is a sequence of            *)
(* one-character strings, the result of splitlines() is a sequence of      *)
(* such sequences.  What a cf command prints is the environment's choice,  *)
(* drawn from bounded sets of texts.  The verbose narration (args.verbose) *)
(* writes progress text only and is left out.                              *)
(***************************************************************************)
EXTENDS Integers, Sequences, FiniteSets

VARIABLES
    pc,               \* position of main: "main", "spaces", "switch", "apps", "total", "services", "done", "failed", "idle"
    args,             \* the argparse namespace: year, carbon, space
    spaces,           \* main's local `spaces`, the list get_cf_spaces returned
    idx,              \* number of spaces the for loop has completed
    total_instances,  \* main's running total
    events,           \* history: external commands invoked and lines printed, in order
    returned,         \* history: the values get_active_instances returned, in order
    error,            \* the exception that ended the run, "none" while there is none
    apps_read,        \* pure-function harness: a text read from "cf apps"
    apps_result       \* pure-function harness: what get_active_instances did with it

vars == <<pc, args, spaces, idx, total_instances, events, returned, error, apps_read, apps_result>>

mainvars == <<pc, args, spaces, idx, total_instances, events, returned, error>>

harnessvars == <<apps_read, apps_result>>

----
\* Bounds of the model.

\* longest list of spaces "cf spaces" prints
MaxSpaces == 2

\* most lines a "cf apps" text of the parser harness has
MaxLines == 4

----
\* Program constants.

WATT_PER_SERVER == 400

INSTANCES_PER_SERVER == 65

\* 365.25 * 24
HOURS_PER_YEAR == 8766

TOTAL == <<"T", "O", "T", "A", "L">>

----
\* Python text primitives.

Range(s) == {s[i] : i \in 1..Len(s)}

\* sequences over S of length at most n
SeqUpTo(S, n) == UNION {[1..k -> S] : k \in 0..n}

Digits == <<"0", "1", "2", "3", "4", "5", "6", "7", "8", "9">>

\* [0-9]
IsDigit(c) == c \in Range(Digits)

DigitVal(c) == (CHOOSE i \in 1..10 : Digits[i] = c) - 1

\* \s
IsSpace(c) == c \in {" ", "\t", "\n", "\r", "\f"}

\* s.startswith(p)
startswith(s, p) == Len(s) >= Len(p) /\ SubSeq(s, 1, Len(p)) = p

\* p occurs in s at position i
OccursAt(s, p, i) == i >= 1 /\ i + Len(p) - 1 <= Len(s) /\ SubSeq(s, i, i + Len(p) - 1) = p

\* `p in s` for two str
str_contains(s, p) == \E i \in 1..(Len(s) + 1) : OccursAt(s, p, i)

\* `x in l` for a list l
list_contains(l, x) == \E i \in 1..Len(l) : l[i] = x

\* position of the first occurrence of p in s at or after i, 0 when there is none
RECURSIVE find(_, _, _)
find(s, p, i) ==
    IF i + Len(p) - 1 > Len(s) THEN 0
    ELSE IF OccursAt(s, p, i) THEN i
    ELSE find(s, p, i + 1)

\* str.splitlines(): split at line breaks, no empty last element; "\n" is
\* the only line break the texts of this model hold
RECURSIVE splitlines(_)
splitlines(text) ==
    IF text = <<>> THEN <<>>
    ELSE LET i == find(text, <<"\n">>, 1) IN
         IF i = 0 THEN <<text>>
         ELSE <<SubSeq(text, 1, i - 1)>> \o splitlines(SubSeq(text, i + 1, Len(text)))

\* int(s) for a str: decimal digits only here; anything else raises ValueError
IsDecimal(s) == s # <<>> /\ \A i \in 1..Len(s) : IsDigit(s[i])

RECURSIVE int(_)
int(s) == IF s = <<>> THEN 0 ELSE 10 * int(SubSeq(s, 1, Len(s) - 1)) + DigitVal(s[Len(s)])

\* str(n) for an integer
RECURSIVE NatStr(_)
NatStr(n) == IF n < 10 THEN <<Digits[n + 1]>> ELSE NatStr(n \div 10) \o <<Digits[(n % 10) + 1]>>

str(n) == IF n < 0 THEN <<"-">> \o NatStr(-n) ELSE NatStr(n)

----
\* get_active_instances

NoMatch == [found |-> FALSE, group1 |-> <<>>]

\* first position at or after i that holds no whitespace
RECURSIVE SkipSpace(_, _)
SkipSpace(line, i) == IF i <= Len(line) /\ IsSpace(line[i]) THEN SkipSpace(line, i + 1) ELSE i

DigitAt(line, i) == i <= Len(line) /\ IsDigit(line[i])

CharAt(line, i, c) == i <= Len(line) /\ line[i] = c

\* the regular expression \sstarted\s*web:([0-9]?[0-9])/[0-9]?[0-9] tried at
\* position i: the optional digit is tried first (greedy), then left out
re_match_at(line, i) ==
    IF ~(i <= Len(line) /\ IsSpace(line[i]) /\ OccursAt(line, <<"s", "t", "a", "r", "t", "e", "d">>, i + 1)) THEN NoMatch
    ELSE LET k == SkipSpace(line, i + 8)
             m == k + 4
         IN  IF ~OccursAt(line, <<"w", "e", "b", ":">>, k) THEN NoMatch
             ELSE IF DigitAt(line, m) /\ DigitAt(line, m + 1) /\ CharAt(line, m + 2, "/") /\ DigitAt(line, m + 3)
                  THEN [found |-> TRUE, group1 |-> SubSeq(line, m, m + 1)]
             ELSE IF DigitAt(line, m) /\ CharAt(line, m + 1, "/") /\ DigitAt(line, m + 2)
                  THEN [found |-> TRUE, group1 |-> SubSeq(line, m, m)]
             ELSE NoMatch

\* re.search: the leftmost position at which the expression matches
RECURSIVE re_search(_, _)
re_search(line, i) ==
    IF i > Len(line) THEN NoMatch
    ELSE IF re_match_at(line, i).found THEN re_match_at(line, i)
    ELSE re_search(line, i + 1)

\* one per started application, whatever its running count
line_instances_apps(line) == IF re_search(line, 1).found THEN 1 ELSE 0

\* what one line adds to `instances` in the loop of get_active_instances
line_instances(line) ==
    LET match_obj == re_search(line, 1) IN
    IF match_obj.found THEN int(match_obj.group1) ELSE 0

\* the for loop of get_active_instances over apps_output[1..n]
RECURSIVE count_instances(_, _)
count_instances(apps_output, n) ==
    IF n = 0 THEN 0
    ELSE count_instances(apps_output, n - 1) + line_instances(apps_output[n])

Returned(v) == [kind |-> "return", value |-> v, data |-> <<>>]

Raised(exc, payload) == [kind |-> exc, value |-> 0, data |-> payload]

\* lines 94-110 of get_active_instances, on the list of lines
instances_of_lines(apps_output) ==
    IF list_contains(apps_output, <<"N", "o", " ", "a", "p", "p", "s", " ", "f", "o", "u", "n", "d">>) THEN Returned(0)
    ELSE IF Len(apps_output) < 3 THEN Raised("IndexError", <<>>)
    ELSE IF startswith(apps_output[3], <<"n", "a", "m", "e">>) THEN Returned(count_instances(apps_output, Len(apps_output)))
    ELSE Raised("RuntimeError", apps_output)

\* get_active_instances, given what os.popen("cf apps").read() gave
get_active_instances(read) == instances_of_lines(splitlines(read))

----
\* get_cf_spaces, switch_to_cf_space, get_services

\* get_cf_spaces, given what os.popen("cf spaces").read() gave
get_cf_spaces(read) ==
    LET i == find(read, <<"n", "a", "m", "e", "\n">>, 1) IN
    IF i # 0 THEN [kind |-> "return", value |-> 0, data |-> splitlines(SubSeq(read, i + 5, Len(read)))]
    ELSE Raised("RuntimeError", read)

\* switch_to_cf_space, given what os.popen("cf target -s " + space).read() gave
switch_to_cf_space(read) ==
    IF str_contains(read, <<"A", "P", "I", " ", "e", "n", "d", "p", "o", "i", "n", "t">>) THEN Returned(0)
    ELSE Raised("RuntimeError", read)

\* the for loop of get_services: the non-empty lines among services_output[1..n]
RECURSIVE count_services(_, _)
count_services(services_output, n) ==
    IF n = 0 THEN 0
    ELSE count_services(services_output, n - 1) + (IF services_output[n] # <<>> THEN 1 ELSE 0)

\* get_services, given what os.popen("cf services").read() gave
get_services(read) ==
    LET services_output == splitlines(read) IN
    IF list_contains(services_output, <<"N", "o", " ", "s", "e", "r", "v", "i", "c", "e", "s", " ", "f", "o", "u", "n", "d">>) THEN Returned(0)
    ELSE Returned(count_services(services_output, Len(services_output)) - 2)

----
\* The footprint formulas.  Python computes them in floating point; the model
\* keeps the exact quotient [num, den] in lowest terms (den > 0).  Within the
\* bounds no exact value lies at a rounding tie, where the two could differ.

RECURSIVE GCD(_, _)
GCD(a, b) == IF b = 0 THEN a ELSE GCD(b, a % b)

Abs(a) == IF a < 0 THEN -a ELSE a

Frac(n, d) == LET g == GCD(Abs(n), d) IN [num |-> n \div g, den |-> d \div g]

FMul(f, k) == LET g == GCD(Abs(k), f.den) IN Frac(f.num * (k \div g), f.den \div g)

FDiv(f, k) == LET g == GCD(Abs(f.num), k) IN Frac(f.num \div g, f.den * (k \div g))

\* the quotient taken as an integer division
calculate_footprint_floor(active_instances) ==
    Frac((active_instances \div INSTANCES_PER_SERVER) * WATT_PER_SERVER, 1)

calculate_footprint(active_instances) ==
    FMul(Frac(active_instances, INSTANCES_PER_SERVER), WATT_PER_SERVER)

calculate_footprint_per_year(active_instances) ==
    FDiv(FMul(calculate_footprint(active_instances), HOURS_PER_YEAR), 1000)

calculate_carbon_footprint_per_year(active_instances, carbon_intensity) ==
    FDiv(FMul(calculate_footprint_per_year(active_instances), carbon_intensity), 1000)

\* round(x): to the nearest integer, a tie to the even one
round(f) ==
    LET q == f.num \div f.den
        r == f.num % f.den
    IN  IF 2 * r < f.den THEN q
        ELSE IF 2 * r > f.den THEN q + 1
        ELSE IF q % 2 = 0 THEN q ELSE q + 1

----
\* process_arguments and print_footprint

\* an optional string argument: None when the option is absent
None == [given |-> FALSE, val |-> <<>>]

Some(s) == [given |-> TRUE, val |-> s]

\* truth value of an optional string: None and "" are false
truthy(x) == x.given /\ x.val # <<>>

YearArgs == BOOLEAN

CarbonArgs == {None, Some(<<>>), Some(<<"0">>), Some(<<"6", "0", "0">>), Some(<<"x">>)}

SpaceArgs == {None, Some(<<>>), Some(<<"d", "e", "v">>), Some(TOTAL)}

\* the namespaces parse_args can return
process_arguments == [year : YearArgs, carbon : CarbonArgs, space : SpaceArgs]

\* the label print_footprint derives from name
footprint_label(name) ==
    IF name = TOTAL THEN TOTAL \o <<":">>
    ELSE <<"S", "p", "a", "c", "e", " ">> \o name \o <<":">>

Printed(line) == [kind |-> "return", value |-> 0, data |-> line]

\* the year flag tested before the carbon option
print_footprint_year_first(a, name, active_instances) ==
    LET _name == footprint_label(name) IN
    IF a.year THEN
        Printed(_name \o <<" ">> \o str(round(calculate_footprint_per_year(active_instances))) \o <<" ", "k", "W", "h", " ", "p", "e", "r", " ", "y", "e", "a", "r">>)
    ELSE IF truthy(a.carbon) THEN
        IF IsDecimal(a.carbon.val)
        THEN Printed(_name \o <<" ">> \o
                     str(round(calculate_carbon_footprint_per_year(active_instances, int(a.carbon.val)))) \o
                     <<" ", "k", "g", " ", "C", "O", "2", "e", " ", "p", "e", "r", " ", "y", "e", "a", "r">>)
        ELSE Raised("ValueError", a.carbon.val)
    ELSE
        Printed(_name \o <<" ">> \o str(round(calculate_footprint(active_instances))) \o <<" ", "W", "a", "t", "t">>)

\* print_footprint: the line it prints, or the ValueError of int(args.carbon)
print_footprint(a, name, active_instances) ==
    LET _name == footprint_label(name) IN
    IF truthy(a.carbon) THEN
        IF IsDecimal(a.carbon.val)
        THEN Printed(_name \o <<" ">> \o
                     str(round(calculate_carbon_footprint_per_year(active_instances, int(a.carbon.val)))) \o
                     <<" ", "k", "g", " ", "C", "O", "2", "e", " ", "p", "e", "r", " ", "y", "e", "a", "r">>)
        ELSE Raised("ValueError", a.carbon.val)
    ELSE IF a.year THEN
        Printed(_name \o <<" ">> \o str(round(calculate_footprint_per_year(active_instances))) \o <<" ", "k", "W", "h", " ", "p", "e", "r", " ", "y", "e", "a", "r">>)
    ELSE
        Printed(_name \o <<" ">> \o str(round(calculate_footprint(active_instances))) \o <<" ", "W", "a", "t", "t">>)

----
\* What the cf client can print.

\* text whose lines are the elements of ls
RECURSIVE Unlines(_)
Unlines(ls) == IF ls = <<>> THEN <<>> ELSE Head(ls) \o <<"\n">> \o Unlines(Tail(ls))

SpaceNames == {<<"d", "e", "v">>, TOTAL, <<>>}

SpacesTexts ==
    {<<"G", "e", "t", "t", "i", "n", "g", " ", "s", "p", "a", "c", "e", "s", ".", ".", ".", "\n", "\n", "n", "a", "m", "e", "\n">> \o Unlines(l) : l \in SeqUpTo(SpaceNames, MaxSpaces)}
        \cup {<<"F", "A", "I", "L", "E", "D", "\n", "N", "o", "t", " ", "l", "o", "g", "g", "e", "d", " ", "i", "n", "\n">>}

TargetTexts == {<<"A", "P", "I", " ", "e", "n", "d", "p", "o", "i", "n", "t", ":", " ", "h", "t", "t", "p", "s", ":", "/", "/", "a", "p", "i", "\n", "s", "p", "a", "c", "e", ":", " ", "s", "\n">>, <<"F", "A", "I", "L", "E", "D", "\n", "S", "p", "a", "c", "e", " ", "n", "o", "t", " ", "f", "o", "u", "n", "d", "\n">>}

AppsHeader == <<"G", "e", "t", "t", "i", "n", "g", " ", "a", "p", "p", "s", ".", ".", ".", "\n", "\n", "n", "a", "m", "e", " ", " ", "s", "t", "a", "t", "e", " ", " ", "p", "r", "o", "c", "e", "s", "s", "e", "s", "\n">>

AppsTexts ==
    { <<"G", "e", "t", "t", "i", "n", "g", " ", "a", "p", "p", "s", ".", ".", ".", "\n", "\n", "N", "o", " ", "a", "p", "p", "s", " ", "f", "o", "u", "n", "d", "\n">>,
      AppsHeader \o <<"a", " ", " ", "s", "t", "a", "r", "t", "e", "d", " ", " ", "w", "e", "b", ":", "1", "0", "/", "1", "0", "\n">>,
      AppsHeader \o <<"a", " ", " ", "s", "t", "a", "r", "t", "e", "d", " ", " ", "w", "e", "b", ":", "5", "/", "5", "\n", "b", " ", " ", "s", "t", "a", "r", "t", "e", "d", " ", " ", "w", "e", "b", ":", "5", "0", "/", "6", "0", "\n", "c", " ", " ", "s", "t", "o", "p", "p", "e", "d", " ", " ", "w", "e", "b", ":", "0", "/", "1", "\n">>,
      AppsHeader \o <<"a", " ", " ", "s", "t", "a", "r", "t", "e", "d", " ", " ", "w", "e", "b", ":", "6", "5", "/", "6", "5", "\n">>,
      <<"F", "A", "I", "L", "E", "D", "\n", "N", "o", "t", " ", "l", "o", "g", "g", "e", "d", " ", "i", "n", "\n", "T", "I", "P", ":", " ", "l", "o", "g", " ", "i", "n", "\n">>,
      <<"F", "A", "I", "L", "E", "D", "\n">> }

ServicesTexts ==
    { <<"G", "e", "t", "t", "i", "n", "g", " ", "s", "e", "r", "v", "i", "c", "e", "s", ".", ".", ".", "\n", "\n", "N", "o", " ", "s", "e", "r", "v", "i", "c", "e", "s", " ", "f", "o", "u", "n", "d", "\n">>,
      <<"G", "e", "t", "t", "i", "n", "g", " ", "s", "e", "r", "v", "i", "c", "e", "s", ".", ".", ".", "\n", "\n", "n", "a", "m", "e", " ", " ", "s", "e", "r", "v", "i", "c", "e", "\n", "d", "b", " ", " ", "p", "o", "s", "t", "g", "r", "e", "s", "\n">> }

----
\* main

Popen(cmd) == [op |-> "popen", text |-> cmd, name |-> <<>>, n |-> 0, site |-> 0]

Report(line, name, n, site) == [op |-> "print", text |-> line, name |-> name, n |-> n, site |-> site]

Raise(exc) == [op |-> "raise", text |-> <<>>, name |-> <<>>, n |-> 0, site |-> 0]

Idle == [kind |-> "idle", value |-> 0, data |-> <<>>]

Init ==
    /\ pc = "main"
    /\ args \in process_arguments
    /\ spaces = <<>>
    /\ idx = 0
    /\ total_instances = 0
    /\ events = <<>>
    /\ returned = <<>>
    /\ error = "none"
    /\ apps_read = <<>>
    /\ apps_result = Idle

\* the command with the space name left out
switch_command_bare(space) == <<"c", "f", " ", "t", "a", "r", "g", "e", "t", " ", "-", "s", " ">>

\* "cf target -s " + space
switch_command(space) == <<"c", "f", " ", "t", "a", "r", "g", "e", "t", " ", "-", "s", " ">> \o space

\* total_instances = active_instances
accumulate_overwrite(total, active_instances) == active_instances

\* total_instances += active_instances
accumulate(total, active_instances) == total + active_instances

\* the loop left at once
loop_next_exit(sp, i) == "total"

\* the for loop after its i-th pass: on to the next space, or past the loop
loop_next(sp, i) == IF i = Len(sp) THEN "total" ELSE "switch"

\* an exception caught around the loop, the TOTAL line printed all the same
Fail_PrintTotal(evs, exc) ==
    /\ pc' = "total"
    /\ error' = exc
    /\ events' = evs \o <<Raise(exc)>>

\* an uncaught exception ends the run
Fail(evs, exc) ==
    /\ pc' = "failed"
    /\ error' = exc
    /\ events' = evs \o <<Raise(exc)>>

\* line 210: switch_to_cf_space(args.space)
SingleSwitch ==
    /\ pc = "main"
    /\ truthy(args.space)
    /\ \E read \in TargetTexts :
        LET evs == events \o <<Popen(switch_command(args.space.val))>>
            r == switch_to_cf_space(read)
        IN  IF r.kind = "return"
            THEN pc' = "apps1" /\ events' = evs /\ UNCHANGED error
            ELSE Fail(evs, r.kind)
    /\ UNCHANGED <<args, spaces, idx, total_instances, returned, harnessvars>>

\* line 211: print_footprint(args, args.space, get_active_instances())
SingleApps ==
    /\ pc = "apps1"
    /\ \E read \in AppsTexts :
       \E r \in {get_active_instances(read)} :
       \E p \in {print_footprint(args, args.space.val, r.value)} :
        LET evs == events \o <<Popen(<<"c", "f", " ", "a", "p", "p", "s">>)>>
        IN  IF r.kind # "return"
            THEN Fail(evs, r.kind) /\ UNCHANGED returned
            ELSE /\ returned' = Append(returned, r.value)
                 /\ IF p.kind # "return"
                    THEN Fail(evs, p.kind)
                    ELSE /\ pc' = "services"
                         /\ events' = evs \o <<Report(p.data, args.space.val, r.value, 211)>>
                         /\ UNCHANGED error
    /\ UNCHANGED <<args, spaces, idx, total_instances, harnessvars>>

\* line 212: get_services(), its result dropped
SingleServices ==
    /\ pc = "services"
    /\ \E read \in ServicesTexts :
        /\ get_services(read).kind = "return"
        /\ events' = events \o <<Popen(<<"c", "f", " ", "s", "e", "r", "v", "i", "c", "e", "s">>)>>
    /\ pc' = "done"
    /\ UNCHANGED <<args, spaces, idx, total_instances, returned, error, harnessvars>>

\* line 214: spaces = get_cf_spaces()
ListSpaces ==
    /\ pc = "main"
    /\ ~truthy(args.space)
    /\ \E read \in SpacesTexts :
        LET evs == events \o <<Popen(<<"c", "f", " ", "s", "p", "a", "c", "e", "s">>)>>
            r == get_cf_spaces(read)
        IN  IF r.kind = "return"
            THEN /\ spaces' = r.data
                 /\ pc' = loop_next(r.data, 0)
                 /\ events' = evs
                 /\ UNCHANGED error
            ELSE Fail(evs, r.kind) /\ UNCHANGED spaces
    /\ UNCHANGED <<args, idx, total_instances, returned, harnessvars>>

\* line 216: switch_to_cf_space(space), for the next space of the loop
LoopSwitch ==
    /\ pc = "switch"
    /\ \E read \in TargetTexts :
        LET evs == events \o <<Popen(switch_command(spaces[idx + 1]))>>
            r == switch_to_cf_space(read)
        IN  IF r.kind = "return"
            THEN pc' = "apps" /\ events' = evs /\ UNCHANGED error
            ELSE Fail(evs, r.kind)
    /\ UNCHANGED <<args, spaces, idx, total_instances, returned, harnessvars>>

\* lines 217-219: measure, accumulate, report; then the loop moves on
LoopApps ==
    /\ pc = "apps"
    /\ \E read \in AppsTexts :
       \E r \in {get_active_instances(read)} :
       \E p \in {print_footprint(args, spaces[idx + 1], r.value)} :
        LET evs == events \o <<Popen(<<"c", "f", " ", "a", "p", "p", "s">>)>>
            active_instances == r.value
        IN  IF r.kind # "return"
            THEN Fail(evs, r.kind) /\ UNCHANGED <<returned, total_instances, idx>>
            ELSE /\ returned' = Append(returned, active_instances)
                 /\ total_instances' = accumulate(total_instances, active_instances)
                 /\ IF p.kind # "return"
                    THEN Fail(evs, p.kind) /\ UNCHANGED idx
                    ELSE /\ events' = evs \o <<Report(p.data, spaces[idx + 1], active_instances, 219)>>
                         /\ idx' = idx + 1
                         /\ pc' = loop_next(spaces, idx + 1)
                         /\ UNCHANGED error
    /\ UNCHANGED <<args, spaces, harnessvars>>

\* line 221: print_footprint(args, TOTAL, total_instances)
PrintTotal ==
    /\ pc = "total"
    /\ LET p == print_footprint(args, TOTAL, total_instances) IN
        IF p.kind # "return"
        THEN Fail(events, p.kind)
        ELSE /\ events' = events \o <<Report(p.data, TOTAL, total_instances, 221)>>
             /\ pc' = "done"
             /\ UNCHANGED error
    /\ UNCHANGED <<args, spaces, idx, total_instances, returned, harnessvars>>

Next ==
    \/ SingleSwitch
    \/ SingleApps
    \/ SingleServices
    \/ ListSpaces
    \/ LoopSwitch
    \/ LoopApps
    \/ PrintTotal

Spec == Init /\ [][Next]_vars

----
\* The parser harness: get_active_instances applied to every text of at most
\* MaxLines lines drawn from AppsLines, with or without its last line break.

AppsLines ==
    { <<>>,
      <<"N", "o", " ", "a", "p", "p", "s", " ", "f", "o", "u", "n", "d">>,
      <<"N", "o", " ", "a", "p", "p", "s", " ", "f", "o", "u", "n", "d", " ", "i", "n", " ", "s", "p", "a", "c", "e", " ", "d", "e", "v">>,
      <<"n", "a", "m", "e", " ", " ", "s", "t", "a", "t", "e", " ", " ", "p", "r", "o", "c", "e", "s", "s", "e", "s">>,
      <<"a", " ", " ", "s", "t", "a", "r", "t", "e", "d", " ", " ", "w", "e", "b", ":", "2", "/", "3">>,
      <<"b", " ", "s", "t", "a", "r", "t", "e", "d", " ", "w", "e", "b", ":", "1", "2", "/", "3", "4">>,
      <<"c", " ", " ", "s", "t", "o", "p", "p", "e", "d", " ", " ", "w", "e", "b", ":", "0", "/", "1">>,
      <<"s", "t", "a", "r", "t", "e", "d", " ", "w", "e", "b", ":", "7", "/", "7">> }

LineBreaks(text) == Cardinality({i \in 1..Len(text) : text[i] = "\n"})

HarnessInit ==
    /\ pc = "idle"
    /\ args = [year |-> FALSE, carbon |-> None, space |-> None]
    /\ spaces = <<>>
    /\ idx = 0
    /\ total_instances = 0
    /\ events = <<>>
    /\ returned = <<>>
    /\ error = "none"
    /\ apps_read = <<>>
    /\ apps_result = Idle

\* the cf client prints one more line
HarnessLine ==
    /\ apps_result = Idle
    /\ LineBreaks(apps_read) < MaxLines
    /\ \E line \in AppsLines : apps_read' = apps_read \o line \o <<"\n">>
    /\ UNCHANGED <<apps_result, mainvars>>

\* get_active_instances reads the text, whose last line break may be missing
HarnessApply ==
    /\ apps_result = Idle
    /\ \E text \in {apps_read, SubSeq(apps_read, 1, Len(apps_read) - 1)} :
        /\ apps_read' = text
        /\ apps_result' = get_active_instances(text)
    /\ UNCHANGED mainvars

HarnessNext ==
    \/ HarnessLine
    \/ HarnessApply

HarnessSpec == HarnessInit /\ [][HarnessNext]_vars

----
\* Vocabulary of the properties.

\* main's mode: `if args.space` is false
AllSpacesMode == ~truthy(args.space)

\* no option at all on the command line
NoFlags == args = [year |-> FALSE, carbon |-> None, space |-> None]

RECURSIVE Sum(_)
Sum(s) == IF s = <<>> THEN 0 ELSE Head(s) + Sum(Tail(s))

endswith(s, p) == Len(s) >= Len(p) /\ SubSeq(s, Len(s) - Len(p) + 1, Len(s)) = p

IsPrint(e) == e.op = "print"

\* the lines printed so far, in order
Prints == SelectSeq(events, IsPrint)

\* a report made for a space (main, lines 211 and 219)
IsSpaceReport(e) == e.op = "print" /\ e.site # 221

\* the aggregate report (main, line 221)
IsTotalReport(e) == e.op = "print" /\ e.site = 221

\* the counts passed to the reports in s
RECURSIVE Counts(_)
Counts(s) == IF s = <<>> THEN <<>> ELSE <<Head(s).n>> \o Counts(Tail(s))

\* what an event is, apart from the text a report line carries
Shape(e) == IF e.op = "print" THEN <<"print", e.name, e.site>> ELSE <<e.op, e.text, 0>>

Shapes(evs) == [i \in 1..Len(evs) |-> Shape(evs[i])]

CmdShape(cmd) == <<"popen", cmd, 0>>

\* switch, list-apps, report, for each of the first i spaces of sp in turn
RECURSIVE ExpectedLoop(_, _)
ExpectedLoop(sp, i) ==
    IF i = 0 THEN <<>>
    ELSE ExpectedLoop(sp, i - 1) \o
         << CmdShape(<<"c", "f", " ", "t", "a", "r", "g", "e", "t", " ", "-", "s", " ">> \o sp[i]), CmdShape(<<"c", "f", " ", "a", "p", "p", "s">>), <<"print", sp[i], 219>> >>

----
\* C1: in all-spaces mode the running total is, in every state, the sum of the
\* counts get_active_instances has returned so far, and the count passed to the
\* TOTAL report is the sum of the counts passed to the per-space reports.
C1_TotalIsSum ==
    AllSpacesMode =>
        /\ total_instances = Sum(returned)
        /\ \A i \in 1..Len(events) :
            IsTotalReport(events[i]) =>
                events[i].n = Sum(Counts(SelectSeq(SubSeq(events, 1, i - 1), IsSpaceReport)))

C1_Witness ==
    /\ pc = "done"
    /\ AllSpacesMode
    /\ returned = <<10, 55>>
    /\ total_instances = 65
    /\ Len(Prints) = 3

\* C2: an all-spaces run without a failure is exactly: list-spaces; per listed
\* space, in order, switch-target, list-apps, that space's report line; and the
\* TOTAL report line as the last event.
C2_AllSpacesSequence ==
    (pc = "done" /\ AllSpacesMode) =>
        Shapes(events) =
            <<CmdShape(<<"c", "f", " ", "s", "p", "a", "c", "e", "s">>)>> \o ExpectedLoop(spaces, Len(spaces)) \o << <<"print", TOTAL, 221>> >>

C2_Witness ==
    /\ pc = "done"
    /\ AllSpacesMode
    /\ Len(spaces) = 2
    /\ spaces[1] # spaces[2]
    /\ Len(events) = 8

\* C3: an exception is the last event of its run; and when list-spaces fails, or
\* switch-target or list-apps fails for the k-th space, what came before it is
\* list-spaces, the complete passes for spaces 1..k-1 and the failing command:
\* no report for space k or a later one, no TOTAL report, no further command.
C3_FailFast ==
    /\ \A i \in 1..Len(events) : events[i].op = "raise" => (i = Len(events) /\ pc = "failed")
    /\ (pc = "failed" /\ AllSpacesMode /\ error \in {"RuntimeError", "IndexError"}) =>
        LET before == Shapes(SubSeq(events, 1, Len(events) - 1))
            passes == <<CmdShape(<<"c", "f", " ", "s", "p", "a", "c", "e", "s">>)>> \o ExpectedLoop(spaces, idx)
        IN  \/ spaces = <<>> /\ before = <<CmdShape(<<"c", "f", " ", "s", "p", "a", "c", "e", "s">>)>>
            \/ /\ idx < Len(spaces)
               /\ \/ before = passes \o <<CmdShape(<<"c", "f", " ", "t", "a", "r", "g", "e", "t", " ", "-", "s", " ">> \o spaces[idx + 1])>>
                  \/ before = passes \o <<CmdShape(<<"c", "f", " ", "t", "a", "r", "g", "e", "t", " ", "-", "s", " ">> \o spaces[idx + 1]), CmdShape(<<"c", "f", " ", "a", "p", "p", "s">>)>>

C3_Witness ==
    /\ pc = "failed"
    /\ AllSpacesMode
    /\ error = "RuntimeError"
    /\ Len(spaces) = 2
    /\ idx = 1
    /\ Len(Prints) = 1

\* round(400 * n / 65 * 8766 / 1000) in integers: 17532 * n / 325 is never at a tie
RoundedKWh(n) == (2 * 17532 * n + 325) \div (2 * 325)

\* round(400 * n / 65 * 8766 / 1000 * c / 1000) in integers: 4383 * n * c / 81250
RoundedKg(n, c) == (2 * 4383 * n * c + 81250) \div (2 * 81250)

\* the unit a printed line ends with
UnitOf(text) ==
    IF endswith(text, <<" ", "k", "g", " ", "C", "O", "2", "e", " ", "p", "e", "r", " ", "y", "e", "a", "r">>) THEN "kg CO2e per year"
    ELSE IF endswith(text, <<" ", "k", "W", "h", " ", "p", "e", "r", " ", "y", "e", "a", "r">>) THEN "kWh per year"
    ELSE IF endswith(text, <<" ", "W", "a", "t", "t">>) THEN "Watt"
    ELSE "none"

C5_MarkerAnywhere ==
    (apps_result # Idle /\ str_contains(apps_read, <<"N", "o", " ", "a", "p", "p", "s", " ", "f", "o", "u", "n", "d">>)) => apps_result = Returned(0)

\* C6: a text with neither the marker nor a third line starting with "name"
\* makes get_active_instances raise the RuntimeError that carries the output.
C6_FormatError ==
    LET lines == splitlines(apps_read) IN
    ( /\ apps_result # Idle
      /\ ~str_contains(apps_read, <<"N", "o", " ", "a", "p", "p", "s", " ", "f", "o", "u", "n", "d">>)
      /\ ~(Len(lines) >= 3 /\ startswith(lines[3], <<"n", "a", "m", "e">>)) )
        => apps_result = Raised("RuntimeError", lines)

\* C7: a single-space run without a failure is exactly: switch-target to the
\* requested space, list-apps, one report line for that space and its count,
\* list-services; whatever list-services prints, the report line is the same.
C7_SingleSpaceSequence ==
    (pc = "done" /\ ~AllSpacesMode) =>
        /\ Len(returned) = 1
        /\ events = << Popen(<<"c", "f", " ", "t", "a", "r", "g", "e", "t", " ", "-", "s", " ">> \o args.space.val),
                       Popen(<<"c", "f", " ", "a", "p", "p", "s">>),
                       Report(print_footprint(args, args.space.val, returned[1]).data,
                              args.space.val, returned[1], 211),
                       Popen(<<"c", "f", " ", "s", "e", "r", "v", "i", "c", "e", "s">>) >>
        /\ str_contains(events[3].text, args.space.val)

C7_Witness ==
    /\ pc = "done"
    /\ ~AllSpacesMode
    /\ returned = <<10>>
    /\ Len(events) = 4

\* C8: the TOTAL report is labeled "TOTAL:", the report of a space is labeled
\* "Space <name>:" and never "TOTAL:", and an all-spaces run prints exactly one
\* line labeled "TOTAL:".
C8_Labels ==
    /\ \A i \in 1..Len(events) :
        /\ IsTotalReport(events[i]) => startswith(events[i].text, <<"T", "O", "T", "A", "L", ":">>)
        /\ IsSpaceReport(events[i]) =>
            /\ startswith(events[i].text, <<"S", "p", "a", "c", "e", " ">> \o events[i].name \o <<":">>)
            /\ ~startswith(events[i].text, <<"T", "O", "T", "A", "L", ":">>)
    /\ (pc = "done" /\ AllSpacesMode) =>
        Cardinality({i \in 1..Len(events) : IsPrint(events[i]) /\ startswith(events[i].text, <<"T", "O", "T", "A", "L", ":">>)}) = 1

\* round(400 * n / 65) in integers: 400 * n / 65 = 80 * n / 13 is never at a tie
RoundedWatt(n) == (2 * 400 * n + 65) \div (2 * 65)

\* C9: with no flags every line carries round(400 * n / 65) Watt for its count,
\* the TOTAL line for the summed count; counts 10 and 55 give 62, 338 and
\* "TOTAL: 400 Watt"; calculate_footprint gives 0, 400 and 800 for 0, 65 and 130.
C9_WattValues ==
    /\ calculate_footprint(0) = [num |-> 0, den |-> 1]
    /\ calculate_footprint(65) = [num |-> 400, den |-> 1]
    /\ calculate_footprint(130) = [num |-> 800, den |-> 1]
    /\ NoFlags =>
        /\ \A i \in 1..Len(events) :
            /\ IsSpaceReport(events[i]) =>
                events[i].text =
                    footprint_label(events[i].name) \o <<" ">> \o str(RoundedWatt(events[i].n)) \o <<" ", "W", "a", "t", "t">>
            /\ IsTotalReport(events[i]) =>
                events[i].text = <<"T", "O", "T", "A", "L", ":", " ">> \o str(RoundedWatt(Sum(returned))) \o <<" ", "W", "a", "t", "t">>
        /\ (pc = "done" /\ returned = <<10, 55>>) =>
            /\ Len(Prints) = 3
            /\ endswith(Prints[1].text, <<":", " ", "6", "2", " ", "W", "a", "t", "t">>)
            /\ endswith(Prints[2].text, <<":", " ", "3", "3", "8", " ", "W", "a", "t", "t">>)
            /\ Prints[3].text = <<"T", "O", "T", "A", "L", ":", " ", "4", "0", "0", " ", "W", "a", "t", "t">>

C9_Witness ==
    /\ pc = "done"
    /\ NoFlags
    /\ returned = <<10, 55>>
    /\ Prints[3].text = <<"T", "O", "T", "A", "L", ":", " ", "4", "0", "0", " ", "W", "a", "t", "t">>

\* the matches in a line of: a whitespace character at i, started, whitespace
\* up to k, web: at k, a running count of d digits, a slash, a digit of the total
LineMatches(line) ==
    { m \in (1..Len(line)) \X (1..Len(line)) \X (1..2) :
        LET i == m[1]
            k == m[2]
            d == m[3]
        IN  /\ IsSpace(line[i])
            /\ OccursAt(line, <<"s", "t", "a", "r", "t", "e", "d">>, i + 1)
            /\ k >= i + 8
            /\ \A j \in (i + 8)..(k - 1) : IsSpace(line[j])
            /\ OccursAt(line, <<"w", "e", "b", ":">>, k)
            /\ k + 5 + d <= Len(line)
            /\ \A j \in (k + 4)..(k + 3 + d) : IsDigit(line[j])
            /\ line[k + 4 + d] = "/"
            /\ IsDigit(line[k + 5 + d]) }

\* the running count of the first match of a line, 0 for a line without one
RunningCount(line) ==
    IF LineMatches(line) = {} THEN 0
    ELSE LET m == CHOOSE x \in LineMatches(line) : \A y \in LineMatches(line) : x[1] <= y[1]
         IN  int(SubSeq(line, m[2] + 4, m[2] + 3 + m[3]))

RECURSIVE SumRunning(_)
SumRunning(lines) == IF lines = <<>> THEN 0 ELSE RunningCount(Head(lines)) + SumRunning(Tail(lines))

====
